---------------------------- MODULE Spec2Model ----------------------------
(***************************************************************************)
(* N-bit integer arithmetic of src/python/arith_algorithms.py: masking and *)
(* sign extension, arithmetic right shift, add/sub with flags, the four    *)
(* multipliers and the two dividers.  Every function is a pure function of *)
(* its arguments; the state machine is one call at a time, with the        *)
(* shift-subtract loop of div_restoring taken one iteration per step.      *)
(***************************************************************************)
EXTENDS Integers, Sequences, FiniteSets, TLC

VARIABLES pc, fn, args, ret, A, Q, i, regs, outer

vars == <<pc, fn, args, ret, A, Q, i, regs, outer>>

\* Largest width whose operands are enumerated exhaustively.
MaxWidth == 3

(***************************************************************************)
(* Python integer operators.  Python ints are unbounded two's complement:  *)
(* x >> n is floor division by 2^n, and &, | act on the infinite sign      *)
(* extension of negative numbers.                                          *)
(***************************************************************************)
RECURSIVE Pow2(_)
Pow2(n) == IF n = 0 THEN 1 ELSE 2 * Pow2(n - 1)

Shl(x, n) == x * Pow2(n)

Shr(x, n) == x \div Pow2(n)

RECURSIVE BitAnd(_, _)
BitAnd(x, y) ==
    IF x = 0 \/ y = 0 THEN 0
    ELSE IF x = -1 /\ y = -1 THEN -1
    ELSE (x % 2) * (y % 2) + 2 * BitAnd(x \div 2, y \div 2)

RECURSIVE BitOr(_, _)
BitOr(x, y) ==
    IF x = 0 THEN y
    ELSE IF y = 0 THEN x
    ELSE IF x = -1 \/ y = -1 THEN -1
    ELSE (IF x % 2 = 1 \/ y % 2 = 1 THEN 1 ELSE 0) + 2 * BitOr(x \div 2, y \div 2)

BitNot(x) == -x - 1

Abs(x) == IF x < 0 THEN -x ELSE x

(***************************************************************************)
(* BitWidthOps                                                             *)
(***************************************************************************)
mask_to_width(value, width) == BitAnd(value, Shl(1, width) - 1)

sign_extend_half(value, width) ==
    IF BitAnd(value, Shl(1, width - 1)) # 0
    THEN value - Shl(1, width - 1)
    ELSE value

sign_extend(value, width) ==
    IF BitAnd(value, Shl(1, width - 1)) # 0
    THEN value - Shl(1, width)
    ELSE value

(***************************************************************************)
(* ShiftOps                                                                *)
(***************************************************************************)
arithmetic_right_shift_nofill(value, shift, width) ==
    IF shift = 0 THEN value ELSE Shr(value, shift)

arithmetic_right_shift(value, shift, width) ==
    IF shift = 0 THEN value
    ELSE LET sign_bit == BitAnd(value, Shl(1, width - 1)) IN
         IF sign_bit # 0
         THEN LET fill_mask == Shl(Shl(1, shift) - 1, width - shift) IN
              BitAnd(BitOr(Shr(value, shift), fill_mask), Shl(1, width) - 1)
         ELSE Shr(value, shift)

(***************************************************************************)
(* AddSub.  The flags dictionary is a record with exactly the keys the     *)
(* code stores.                                                            *)
(***************************************************************************)
Get(flags, key, default) ==
    IF key \in DOMAIN flags THEN flags[key] ELSE default

\* Python truthiness of the carry: an int, or the default False (False == 0).
Truthy(v) == v # 0

add_nomask(a0, b0, width, signed) ==
    LET a == mask_to_width(a0, width)
        b == mask_to_width(b0, width)
        sum == a + b
        carry_out == BitAnd(Shr(sum, width), 1)
        result == sum
        a_sign == BitAnd(Shr(a, width - 1), 1)
        b_sign == BitAnd(Shr(b, width - 1), 1)
        result_sign == BitAnd(Shr(result, width - 1), 1)
        overflow == (a_sign = b_sign) /\ (a_sign # result_sign)
    IN  IF signed
        THEN [result |-> result, flags |-> [overflow |-> overflow]]
        ELSE [result |-> result, flags |-> [carry_out |-> carry_out]]

add_bothflags(a0, b0, width, signed) ==
    LET a == mask_to_width(a0, width)
        b == mask_to_width(b0, width)
        sum == a + b
        carry_out == BitAnd(Shr(sum, width), 1)
        result == mask_to_width(sum, width)
        overflow == carry_out = 1
    IN  IF signed
        THEN [result |-> result, flags |-> [overflow |-> overflow]]
        ELSE [result |-> result, flags |-> [carry_out |-> carry_out]]

add(a0, b0, width, signed) ==
    LET a == mask_to_width(a0, width)
        b == mask_to_width(b0, width)
        sum == a + b
        carry_out == BitAnd(Shr(sum, width), 1)
        result == mask_to_width(sum, width)
        a_sign == BitAnd(Shr(a, width - 1), 1)
        b_sign == BitAnd(Shr(b, width - 1), 1)
        result_sign == BitAnd(Shr(result, width - 1), 1)
        overflow == (a_sign = b_sign) /\ (a_sign # result_sign)
    IN  IF signed
        THEN [result |-> result, flags |-> [overflow |-> overflow]]
        ELSE [result |-> result, flags |-> [carry_out |-> carry_out]]

sub(a0, b0, width, signed) ==
    LET a == mask_to_width(a0, width)
        b == mask_to_width(b0, width)
        b_complement == mask_to_width(BitNot(b) + 1, width)
        r == add(a, b_complement, width, signed)
    IN  IF signed
        THEN [result |-> r.result,
              flags |-> [overflow |-> Get(r.flags, "overflow", FALSE)]]
        ELSE [result |-> r.result,
              flags |-> [borrow |-> ~Truthy(Get(r.flags, "carry_out", 0))]]

(***************************************************************************)
(* Multipliers.  ShiftAdd is the loop "for i in range(width)" shared by    *)
(* mul_sequential and mul_bit, from iteration k with the product so far.   *)
(***************************************************************************)
RECURSIVE ShiftAdd(_, _, _, _, _)
ShiftAdd(a, b, width, k, product) ==
    IF k >= width THEN product
    ELSE ShiftAdd(a, b, width, k + 1,
                  IF BitAnd(b, Shl(1, k)) # 0 THEN product + Shl(a, k) ELSE product)

mul_sequential_short(a0, b0, width, signed) ==
    LET sa == IF signed THEN sign_extend(mask_to_width(a0, width), width)
                        ELSE mask_to_width(a0, width)
        sb == IF signed THEN sign_extend(mask_to_width(b0, width), width)
                        ELSE mask_to_width(b0, width)
        result_negative == signed /\ ((sa < 0) # (sb < 0))
        a == IF signed THEN Abs(sa) ELSE sa
        b == IF signed THEN Abs(sb) ELSE sb
        product == ShiftAdd(a, b, IF signed THEN width - 1 ELSE width, 0, 0)
    IN  [product |-> mask_to_width(IF signed /\ result_negative
                                   THEN -product ELSE product, 2 * width),
         flags |-> <<>>]

mul_sequential(a0, b0, width, signed) ==
    LET sa == IF signed THEN sign_extend(mask_to_width(a0, width), width)
                        ELSE mask_to_width(a0, width)
        sb == IF signed THEN sign_extend(mask_to_width(b0, width), width)
                        ELSE mask_to_width(b0, width)
        result_negative == signed /\ ((sa < 0) # (sb < 0))
        a == IF signed THEN Abs(sa) ELSE sa
        b == IF signed THEN Abs(sb) ELSE sb
        product == ShiftAdd(a, b, width, 0, 0)
    IN  [product |-> mask_to_width(IF signed /\ result_negative
                                   THEN -product ELSE product, 2 * width),
         flags |-> <<>>]

mul_booth(a0, b0, width, signed) ==
    IF ~signed THEN mul_sequential(a0, b0, width, signed)
    ELSE LET a_signed == sign_extend(mask_to_width(a0, width), width)
             b_signed == sign_extend(mask_to_width(b0, width), width)
             result == a_signed * b_signed
         IN  [product |-> mask_to_width(result, 2 * width), flags |-> <<>>]

mul_bit(a0, b0, width, signed) ==
    LET sa == IF signed THEN sign_extend(mask_to_width(a0, width), width)
                        ELSE mask_to_width(a0, width)
        sb == IF signed THEN sign_extend(mask_to_width(b0, width), width)
                        ELSE mask_to_width(b0, width)
        result_negative == signed /\ ((sa < 0) # (sb < 0))
        a == IF signed THEN Abs(sa) ELSE sa
        b == IF signed THEN Abs(sb) ELSE sb
        product == ShiftAdd(a, b, width, 0, 0)
    IN  [product |-> mask_to_width(IF signed /\ result_negative
                                   THEN -product ELSE product, 2 * width),
         flags |-> <<>>]

mul_bitpair(a0, b0, width, signed) ==
    IF ~signed THEN mul_sequential(a0, b0, width, signed)
    ELSE LET a_signed == sign_extend(mask_to_width(a0, width), width)
             b_signed == sign_extend(mask_to_width(b0, width), width)
             result == a_signed * b_signed
         IN  [product |-> mask_to_width(result, 2 * width), flags |-> <<>>]

(***************************************************************************)
(* Dividers.  DivPrologue is div_restoring up to the loop (the zero test   *)
(* on the raw divisor, then masking and sign handling), DivStep one        *)
(* iteration of the shift-subtract loop, DivEpilogue the sign application. *)
(***************************************************************************)
DivPrologue(a0, b0, width, signed) ==
    LET sa == IF signed THEN sign_extend(mask_to_width(a0, width), width)
                        ELSE mask_to_width(a0, width)
        sb == IF signed THEN sign_extend(mask_to_width(b0, width), width)
                        ELSE mask_to_width(b0, width)
    IN  [raise |-> (b0 = 0),
         a |-> IF signed THEN Abs(sa) ELSE sa,
         b |-> IF signed THEN Abs(sb) ELSE sb,
         result_negative |-> signed /\ ((sa < 0) # (sb < 0)),
         remainder_negative |-> signed /\ (sa < 0)]

DivStep_norestore(accA, regQ, b, width) ==
    LET A1 == BitAnd(BitOr(Shl(accA, 1), BitAnd(Shr(regQ, width - 1), 1)),
                     Shl(1, width) - 1)
        Q1 == BitAnd(Shl(regQ, 1), Shl(1, width) - 1)
        temp_A == A1 - b
    IN  IF temp_A < 0
        THEN [A |-> mask_to_width(temp_A, width), Q |-> BitAnd(Q1, BitNot(1))]
        ELSE [A |-> temp_A, Q |-> BitOr(Q1, 1)]

DivStep(accA, regQ, b, width) ==
    LET A1 == BitAnd(BitOr(Shl(accA, 1), BitAnd(Shr(regQ, width - 1), 1)),
                     Shl(1, width) - 1)
        Q1 == BitAnd(Shl(regQ, 1), Shl(1, width) - 1)
        temp_A == A1 - b
    IN  IF temp_A < 0
        THEN [A |-> A1, Q |-> BitAnd(Q1, BitNot(1))]
        ELSE [A |-> temp_A, Q |-> BitOr(Q1, 1)]

DivEpilogue(regQ, accA, width, signed, result_negative, remainder_negative) ==
    LET quotient == IF signed /\ result_negative THEN -regQ ELSE regQ
        remainder == IF signed /\ remainder_negative THEN -accA ELSE accA
    IN  IF signed
        THEN [quotient |-> mask_to_width(quotient, width),
              remainder |-> mask_to_width(remainder, width)]
        ELSE [quotient |-> quotient, remainder |-> remainder]

\* Sign corrections of div_nonrestoring on the pair the inner call returned.
NonrestoringSigns(q, r, width, result_negative, remainder_negative) ==
    [quotient |-> IF result_negative /\ q # 0 THEN mask_to_width(-q, width) ELSE q,
     remainder |-> IF remainder_negative /\ r # 0 THEN mask_to_width(-r, width) ELSE r]

(***************************************************************************)
(* Inputs.  Operands range over more than the w-bit patterns, so that      *)
(* negative and out-of-range arguments are masked by the code under test.  *)
(***************************************************************************)
Widths == 1 .. MaxWidth

Operands(w) == (-Pow2(w)) .. (2 * Pow2(w) - 1)

\* The concrete scenarios the documentation gives at widths 8 and 4.
Scenarios ==
    { [a |-> 200, b |-> 100, width |-> 8, signed |-> FALSE],
      [a |-> 100, b |-> 50, width |-> 8, signed |-> FALSE],
      [a |-> 100, b |-> 50, width |-> 8, signed |-> TRUE],
      [a |-> -128, b |-> 1, width |-> 8, signed |-> TRUE],
      [a |-> -5, b |-> 6, width |-> 8, signed |-> TRUE],
      [a |-> 13, b |-> 4, width |-> 4, signed |-> FALSE] }

Calls ==
    UNION { { [a |-> x, b |-> y, width |-> w, signed |-> s] :
                x \in Operands(w), y \in Operands(w), s \in BOOLEAN } :
            w \in Widths } \cup Scenarios

NoArgs == [a |-> 0, b |-> 0, width |-> 1, signed |-> FALSE]
NoRet == [status |-> "none"]
NoRegs == [b |-> 0, width |-> 1, signed |-> FALSE,
           result_negative |-> FALSE, remainder_negative |-> FALSE]
NoOuter == [caller |-> "main", signed |-> FALSE,
            result_negative |-> FALSE, remainder_negative |-> FALSE]

Returned(v) == [status |-> "returned", value |-> v]
Raised == [status |-> "raised", error |-> "Division by zero"]

Init ==
    /\ pc = "idle"
    /\ fn = "none"
    /\ args = NoArgs
    /\ ret = NoRet
    /\ A = 0
    /\ Q = 0
    /\ i = 0
    /\ regs = NoRegs
    /\ outer = NoOuter

\* A call of a function that runs to its return in one step.
Pure(name, c, v) ==
    /\ pc' = "done"
    /\ fn' = name
    /\ args' = c
    /\ ret' = Returned(v)
    /\ UNCHANGED <<A, Q, i, regs, outer>>

Call_sign_extend ==
    /\ pc = "idle"
    /\ \E w \in Widths : \E r \in 0 .. (Pow2(w) - 1) :
        Pure("sign_extend", [a |-> r, b |-> 0, width |-> w, signed |-> TRUE], sign_extend(r, w))

Call_mask_to_width ==
    /\ pc = "idle"
    /\ \E w \in Widths : \E x \in Operands(w) :
        Pure("mask_to_width", [a |-> x, b |-> 0, width |-> w, signed |-> FALSE], mask_to_width(x, w))

Call_arithmetic_right_shift ==
    /\ pc = "idle"
    /\ \E w \in Widths : \E r \in 0 .. (Pow2(w) - 1) : \E sh \in 0 .. w :
        Pure("arithmetic_right_shift", [a |-> r, b |-> sh, width |-> w, signed |-> TRUE], arithmetic_right_shift(r, sh, w))

Call_add ==
    /\ pc = "idle"
    /\ \E c \in Calls :
        Pure("add", c, add(c.a, c.b, c.width, c.signed))

Call_sub ==
    /\ pc = "idle"
    /\ \E c \in Calls :
        Pure("sub", c, sub(c.a, c.b, c.width, c.signed))

Call_mul_sequential ==
    /\ pc = "idle"
    /\ \E c \in Calls :
        Pure("mul_sequential", c, mul_sequential(c.a, c.b, c.width, c.signed))

Call_mul_booth ==
    /\ pc = "idle"
    /\ \E c \in Calls :
        Pure("mul_booth", c, mul_booth(c.a, c.b, c.width, c.signed))

Call_mul_bit ==
    /\ pc = "idle"
    /\ \E c \in Calls :
        Pure("mul_bit", c, mul_bit(c.a, c.b, c.width, c.signed))

Call_mul_bitpair ==
    /\ pc = "idle"
    /\ \E c \in Calls :
        Pure("mul_bitpair", c, mul_bitpair(c.a, c.b, c.width, c.signed))

\* Entry of div_restoring(a0, b0, width, signed): raise, or set up the loop.
EnterRestoring(a0, b0, width, signed) ==
    LET p == DivPrologue(a0, b0, width, signed) IN
    IF p.raise
    THEN /\ pc' = "done"
         /\ ret' = Raised
         /\ UNCHANGED <<A, Q, i, regs>>
    ELSE /\ pc' = "loop"
         /\ A' = 0
         /\ Q' = p.a
         /\ i' = 0
         /\ regs' = [b |-> p.b, width |-> width, signed |-> signed,
                     result_negative |-> p.result_negative,
                     remainder_negative |-> p.remainder_negative]
         /\ UNCHANGED ret

Call_div_restoring ==
    /\ pc = "idle"
    /\ \E c \in Calls :
        /\ fn' = "div_restoring"
        /\ args' = c
        /\ outer' = NoOuter
        /\ EnterRestoring(c.a, c.b, c.width, c.signed)

Call_div_nonrestoring ==
    /\ pc = "idle"
    /\ \E c \in Calls :
        /\ fn' = "div_nonrestoring"
        /\ args' = c
        /\ IF c.b = 0
           THEN /\ pc' = "done"
                /\ ret' = Raised
                /\ UNCHANGED <<A, Q, i, regs, outer>>
           ELSE IF ~c.signed
           THEN /\ outer' = [NoOuter EXCEPT !.caller = "div_nonrestoring"]
                /\ EnterRestoring(c.a, c.b, c.width, c.signed)
           ELSE LET a == sign_extend(mask_to_width(c.a, c.width), c.width)
                    b == sign_extend(mask_to_width(c.b, c.width), c.width)
                IN  /\ outer' = [caller |-> "div_nonrestoring", signed |-> TRUE,
                                 result_negative |-> ((a < 0) # (b < 0)),
                                 remainder_negative |-> (a < 0)]
                    /\ EnterRestoring(Abs(a), Abs(b), c.width, FALSE)

div_restoring_step ==
    /\ pc = "loop"
    /\ i < regs.width
    /\ LET s == DivStep(A, Q, regs.b, regs.width) IN
        /\ A' = s.A
        /\ Q' = s.Q
    /\ i' = i + 1
    /\ UNCHANGED <<pc, fn, args, ret, regs, outer>>

div_restoring_return ==
    /\ pc = "loop"
    /\ i = regs.width
    /\ LET v == DivEpilogue(Q, A, regs.width, regs.signed,
                            regs.result_negative, regs.remainder_negative)
       IN  IF outer.caller = "div_nonrestoring" /\ outer.signed
           THEN /\ pc' = "signs"
                /\ ret' = [status |-> "inner", value |-> v]
           ELSE /\ pc' = "done"
                /\ ret' = Returned(v)
    /\ UNCHANGED <<fn, args, A, Q, i, regs, outer>>

div_nonrestoring_return ==
    /\ pc = "signs"
    /\ pc' = "done"
    /\ ret' = Returned(NonrestoringSigns(ret.value.quotient, ret.value.remainder,
                                         args.width, outer.result_negative,
                                         outer.remainder_negative))
    /\ UNCHANGED <<fn, args, A, Q, i, regs, outer>>

\* The caller takes the outcome and is free to make the next call.
NextCall ==
    /\ pc = "done"
    /\ pc' = "idle"
    /\ fn' = "none"
    /\ args' = NoArgs
    /\ ret' = NoRet
    /\ A' = 0
    /\ Q' = 0
    /\ i' = 0
    /\ regs' = NoRegs
    /\ outer' = NoOuter

Next ==
    \/ Call_sign_extend
    \/ Call_mask_to_width
    \/ Call_arithmetic_right_shift
    \/ Call_add
    \/ Call_sub
    \/ Call_mul_sequential
    \/ Call_mul_booth
    \/ Call_mul_bit
    \/ Call_mul_bitpair
    \/ Call_div_restoring
    \/ Call_div_nonrestoring
    \/ div_restoring_step
    \/ div_restoring_return
    \/ div_nonrestoring_return
    \/ NextCall

Spec == Init /\ [][Next]_vars

(***************************************************************************)
(* Reference arithmetic the properties are stated in: the mathematical     *)
(* residue modulo 2^w and the two's-complement value of a w-bit pattern.   *)
(***************************************************************************)
Residue(x, w) == x % Pow2(w)

SignedValue(x, w) ==
    LET m == x % Pow2(w) IN IF m >= Pow2(w - 1) THEN m - Pow2(w) ELSE m

MinSigned(w) == -Pow2(w - 1)
MaxSigned(w) == Pow2(w - 1) - 1

Representable(v, w) == MinSigned(w) <= v /\ v <= MaxSigned(w)

\* The operands lie in the valid range of the call's width and signedness.
InRange(c) ==
    IF c.signed
    THEN Representable(c.a, c.width) /\ Representable(c.b, c.width)
    ELSE c.a \in 0 .. (Pow2(c.width) - 1) /\ c.b \in 0 .. (Pow2(c.width) - 1)

Done(name) == pc = "done" /\ fn = name

Dividers == {"div_restoring", "div_nonrestoring"}
Multipliers == {"mul_sequential", "mul_booth", "mul_bit", "mul_bitpair"}

\* C1: for every in-range dividend and nonzero in-range divisor, both
\* dividers return (Q, R) with A_s = Q_s * B_s + R_s, sign-extended in signed
\* mode and masked in unsigned mode, including a = -2^(w-1), b = -1 and w = 1.
DivisionIdentity ==
    (pc = "done" /\ fn \in Dividers /\ InRange(args) /\ args.b # 0) =>
        /\ ret.status = "returned"
        /\ LET w == args.width
               q == ret.value.quotient
               r == ret.value.remainder
           IN  IF args.signed
               THEN SignedValue(args.a, w) =
                        SignedValue(q, w) * SignedValue(args.b, w) + SignedValue(r, w)
               ELSE Residue(args.a, w) =
                        Residue(q, w) * Residue(args.b, w) + Residue(r, w)

\* C2: the four multipliers return the same 2w-bit product, equal to the
\* reference product (masked operands if unsigned, sign-extended operands if
\* signed) modulo 2^(2w), for all operands including -2^(w-1).
MultiplierEquivalence ==
    (pc = "done" /\ fn \in Multipliers) =>
        LET w == args.width
            ref == (IF args.signed
                    THEN SignedValue(args.a, w) * SignedValue(args.b, w)
                    ELSE Residue(args.a, w) * Residue(args.b, w)) % Pow2(2 * w)
        IN  /\ ret.value.product = ref
            /\ mul_sequential(args.a, args.b, w, args.signed).product = ref
            /\ mul_booth(args.a, args.b, w, args.signed).product = ref
            /\ mul_bit(args.a, args.b, w, args.signed).product = ref
            /\ mul_bitpair(args.a, args.b, w, args.signed).product = ref
            /\ (args = [a |-> -5, b |-> 6, width |-> 8, signed |-> TRUE]
                    => ret.value.product = 65536 - 30)

\* A signed shift-add multiplication of the most negative value by itself.
MultiplierWitness ==
    /\ Done("mul_bit")
    /\ args.signed
    /\ args.width >= 2
    /\ SignedValue(args.a, args.width) = MinSigned(args.width)
    /\ SignedValue(args.b, args.width) = MinSigned(args.width)
    /\ ret.value.product = Pow2(2 * args.width - 2)

\* C3: add returns (a + b) mod 2^w and sub returns (a - b) mod 2^w with the
\* mathematical modulo, for all integer operands; the result lies in
\* [0, 2^w) and is the same bit pattern in signed and unsigned mode.
AddSubResult ==
    /\ Done("add") =>
        /\ ret.value.result = (args.a + args.b) % Pow2(args.width)
        /\ ret.value.result \in 0 .. (Pow2(args.width) - 1)
        /\ ret.value.result = add(args.a, args.b, args.width, ~args.signed).result
    /\ Done("sub") =>
        /\ ret.value.result = (args.a - args.b) % Pow2(args.width)
        /\ ret.value.result \in 0 .. (Pow2(args.width) - 1)
        /\ ret.value.result = sub(args.a, args.b, args.width, ~args.signed).result

\* A subtraction of out-of-range operands whose true difference is negative.
AddSubWitness ==
    /\ Done("sub")
    /\ args.a < 0
    /\ args.b >= Pow2(args.width)
    /\ ret.value.result = args.a - args.b + 2 * Pow2(args.width)

\* C4: unsigned add returns exactly carry_out, set iff mask(a) + mask(b) >=
\* 2^w; signed add returns exactly overflow, true iff the operands share the
\* sign bit and the result's differs, iff the sum of the sign-extended
\* operands is not representable.
AddFlags ==
    Done("add") =>
        LET w == args.width
            ua == Residue(args.a, w)
            ub == Residue(args.b, w)
            sa == SignedValue(args.a, w)
            sb == SignedValue(args.b, w)
            flags == ret.value.flags
        IN  /\ ~args.signed =>
                /\ DOMAIN flags = {"carry_out"}
                /\ flags.carry_out \in {0, 1}
                /\ flags.carry_out = 1 <=> ua + ub >= Pow2(w)
                /\ flags.carry_out = ((ua + ub) \div Pow2(w)) % 2
            /\ args.signed =>
                /\ DOMAIN flags = {"overflow"}
                /\ flags.overflow <=> ~Representable(sa + sb, w)
                /\ flags.overflow <=>
                       /\ (sa < 0) = (sb < 0)
                       /\ (sa < 0) # (SignedValue(ret.value.result, w) < 0)
            /\ (args = [a |-> 200, b |-> 100, width |-> 8, signed |-> FALSE]
                    => ret.value = [result |-> 44, flags |-> [carry_out |-> 1]])
            /\ (args = [a |-> 100, b |-> 50, width |-> 8, signed |-> FALSE]
                    => ret.value = [result |-> 150, flags |-> [carry_out |-> 0]])
            /\ (args = [a |-> 100, b |-> 50, width |-> 8, signed |-> TRUE]
                    => ret.value = [result |-> 150, flags |-> [overflow |-> TRUE]])

\* Two positive 8-bit operands overflowing into the negative range.
AddFlagsWitness ==
    /\ Done("add")
    /\ args = [a |-> 100, b |-> 50, width |-> 8, signed |-> TRUE]
    /\ ret.value.flags.overflow

\* C5: signed sub reports overflow exactly when signExtend(a) - signExtend(b)
\* is not representable in w bits, also for the subtrahend b = -2^(w-1).
SubSignedOverflow ==
    (Done("sub") /\ args.signed) =>
        LET w == args.width IN
        ret.value.flags.overflow <=>
            ~Representable(SignedValue(args.a, w) - SignedValue(args.b, w), w)

\* C6: unsigned sub returns exactly the flag borrow, true iff
\* mask(a) < mask(b), also for the subtrahend b = 0.
SubUnsignedBorrow ==
    (Done("sub") /\ ~args.signed) =>
        /\ DOMAIN ret.value.flags = {"borrow"}
        /\ ret.value.flags.borrow <=>
               Residue(args.a, args.width) < Residue(args.b, args.width)

\* C7: a divider raises the division-by-zero error if and only if the raw
\* divisor is 0; every call with a nonzero raw divisor returns a pair.
DivisionByZeroIffRawZero ==
    (pc = "done" /\ fn \in Dividers) =>
        /\ args.b = 0 => ret = Raised
        /\ args.b # 0 =>
            /\ ret.status = "returned"
            /\ DOMAIN ret.value = {"quotient", "remainder"}

\* C8: for raw in [0, 2^w) and shift in [0, w], arithmetic_right_shift
\* returns the w-bit encoding of floor(signExtend(raw) / 2^shift).
ArithmeticRightShift ==
    Done("arithmetic_right_shift") =>
        LET w == args.width
            raw == args.a
            shift == args.b
            v == ret.value
            negative == raw >= Pow2(w - 1)
        IN  /\ v \in 0 .. (Pow2(w) - 1)
            /\ v = (SignedValue(raw, w) \div Pow2(shift)) % Pow2(w)
            /\ shift = 0 => v = raw
            /\ ~negative => v = raw \div Pow2(shift)
            /\ negative => v \div Pow2(w - shift) = Pow2(shift) - 1
            /\ negative => v % Pow2(w - shift) = raw \div Pow2(shift)
            /\ (negative /\ shift = w) => v = Pow2(w) - 1

\* A negative pattern shifted by the whole width.
ArithmeticRightShiftWitness ==
    /\ Done("arithmetic_right_shift")
    /\ args.width >= 2
    /\ args.b = args.width
    /\ args.a >= Pow2(args.width - 1)
    /\ ret.value = Pow2(args.width) - 1

\* C9: for every raw r in [0, 2^w), sign_extend(r, w) lies in
\* [-2^(w-1), 2^(w-1) - 1] and mask_to_width maps it back to r;
\* mask_to_width is the mathematical modulo 2^w, also of negative values.
RoundTrip ==
    /\ Done("sign_extend") =>
        /\ Representable(ret.value, args.width)
        /\ mask_to_width(ret.value, args.width) = args.a
        /\ mask_to_width(ret.value, args.width) = ret.value % Pow2(args.width)
    /\ Done("mask_to_width") =>
        /\ ret.value = args.a % Pow2(args.width)
        /\ ret.value \in 0 .. (Pow2(args.width) - 1)

\* A pattern with the sign bit set, extended to a negative value.
RoundTripWitness ==
    /\ Done("sign_extend")
    /\ args.width >= 2
    /\ args.a >= Pow2(args.width - 1)
    /\ ret.value < 0
    /\ mask_to_width(ret.value, args.width) = args.a

\* C10: in unsigned mode with a nonzero masked divisor both dividers return
\* (floor(ma / mb), ma mod mb); the accumulator A stays in [0, mb) after every
\* iteration of the loop, so remainder < divisor and the quotient fits w bits.
UnsignedDivision ==
    (fn \in Dividers /\ ~args.signed /\ Residue(args.b, args.width) # 0) =>
        LET w == args.width
            ma == Residue(args.a, w)
            mb == Residue(args.b, w)
        IN  /\ pc \in {"loop", "done"}
            /\ pc = "loop" =>
                /\ i \in 0 .. w
                /\ A \in 0 .. (mb - 1)
                /\ Q \in 0 .. (Pow2(w) - 1)
            /\ pc = "done" =>
                /\ ret = Returned([quotient |-> ma \div mb, remainder |-> ma % mb])
                /\ ret.value.remainder < mb
                /\ ret.value.quotient \in 0 .. (Pow2(w) - 1)
            /\ (pc = "done" /\ args.a = 13 /\ args.b = 4 /\ w = 4) =>
                ret.value = [quotient |-> 3, remainder |-> 1]

\* 13 divided by 4 at width 4 through the non-restoring entry point.
UnsignedDivisionWitness ==
    /\ Done("div_nonrestoring")
    /\ args = [a |-> 13, b |-> 4, width |-> 4, signed |-> FALSE]
    /\ ret.value = [quotient |-> 3, remainder |-> 1]

=============================================================================
